---- MODULE Spec2Model ----
(***************************************************************************)
(* Model of the Proxmox VE Terraform provider:                             *)
(*   - proxmoxveProvider.Configure        (internal/provider/provider.go)  *)
(*   - vmConfigDataSource.Configure/Read  (vm_config_data_source.go)       *)
(*   - vmConfigDataSource.parseNetworkConfig                               *)
(*                                                                         *)
(* Strings that the code takes apart (interface lines) are sequences of    *)
(* one-character strings; strings that are only compared are TLA+ strings. *)
(* An optional value (a types.String/Bool/Int32 that may be null) is <<>>  *)
(* when unset and <<v>> when set.                                          *)
(***************************************************************************)
EXTENDS Integers, Sequences, FiniteSets, TLC

VARIABLES
    handler,        \* the handler the host served last ("" before the first)
    req,            \* its request, with the remote answers it consumed
    resp,           \* its response: Diagnostics, and State for a Read
    calls,          \* the remote calls it issued, in order
    parsed,         \* the number of lines it handed to parseNetworkConfig
    DataSourceData, \* resp.DataSourceData of the last provider Configure,
                    \* which the host hands to the data source's Configure
    ResourceData,   \* resp.ResourceData of the last provider Configure
    providerData,   \* vmConfigDataSource.providerData
    configured,     \* vmConfigDataSource.Configure has been called
    fault,          \* a handler panicked: the provider process is gone
    pline,          \* parser harness: the line under test
    pout            \* parser harness: the parser's outcome (<<>> before)

vars == <<handler, req, resp, calls, parsed, DataSourceData, ResourceData,
          providerData, configured, fault, pline, pout>>

lastVars == <<handler, req, resp, calls, parsed>>
parseVars == <<pline, pout>>

None == <<>>
Some(v) == <<v>>

(***************************************************************************)
(* Bounds of the model.                                                    *)
(***************************************************************************)
\* network-interface slots (net0..) of a VM
MaxNets == 2
\* comma-separated pairs in a line handed to the parser harness
MaxPairs == 2

(***************************************************************************)
(* diag.Diagnostics: a list of diagnostics; Append drops a diagnostic that *)
(* is already in the list.                                                 *)
(***************************************************************************)
AttributeError(attr, summary) ==
    [severity |-> "error", path |-> attr, summary |-> summary, detail |-> "" ]

ErrorDiag(summary, detail) ==
    [severity |-> "error", path |-> "", summary |-> summary, detail |-> detail]

Contains(diags, d) == \E i \in 1..Len(diags) : diags[i] = d

Append1(diags, d) == IF Contains(diags, d) THEN diags ELSE Append(diags, d)

HasError(diags) == \E i \in 1..Len(diags) : diags[i].severity = "error"

(***************************************************************************)
(* types.String of the provider configuration.                             *)
(***************************************************************************)
StrNull == [state |-> "null", value |-> ""]
StrUnknown == [state |-> "unknown", value |-> ""]
StrKnown(s) == [state |-> "known", value |-> s]

IsUnknown(x) == x.state = "unknown"
IsNull(x) == x.state = "null"
\* ValueString returns "" for a null or unknown value
ValueString(x) == IF x.state = "known" THEN x.value ELSE ""

(***************************************************************************)
(* proxmoxveProvider.Configure                                             *)
(***************************************************************************)
\* the provider configurations the host may hand to Configure: the four
\* strings are Required in the schema, so each is unknown, empty or a value
StringInputs(v) == {StrUnknown, StrKnown(""), StrKnown(v)}

ProviderConfigs ==
    [APITokenID : StringInputs("token_id"),
     APITokenSecret : StringInputs("secret"),
     APITokenUsername : StringInputs("user@realm"),
     Endpoint : StringInputs("https://pve:8006"),
     IgnoreUntrustedSSLCertificate : BOOLEAN]

\* req.Config.Get into proxmoxveProviderModel: the model's fields are the
\* framework's own value types, which hold null and unknown, so the decode
\* of a configuration of the declared schema adds no diagnostic
ConfigGet(diags) == diags

\* first block of checks: a value must be known
UnknownChecks(config, diags) ==
    LET d1 == IF IsUnknown(config.APITokenID)
              THEN Append1(diags, AttributeError("api_token_id",
                                   "Unknown Proxmox VE API Token ID"))
              ELSE diags
        d2 == IF IsUnknown(config.APITokenSecret)
              THEN Append1(d1, AttributeError("api_token_secret",
                                   "Unknown Proxmox VE API Token Secret"))
              ELSE d1
        \* the username's check tests config.APITokenID
        d3 == IF IsUnknown(config.APITokenID)
              THEN Append1(d2, AttributeError("api_token_username",
                                   "Unknown Proxmox VE API Token Username"))
              ELSE d2
        d4 == IF IsUnknown(config.Endpoint)
              THEN Append1(d3, AttributeError("endpoint",
                                   "Unknown Proxmox VE Endpoint"))
              ELSE d3
    IN d4

\* second block of checks: a value must not be empty
MissingChecks(config, diags) ==
    LET d1 == IF ValueString(config.APITokenID) = ""
              THEN Append1(diags, AttributeError("api_token_id",
                                   "Missing Proxmox VE API Token ID"))
              ELSE diags
        d2 == IF ValueString(config.APITokenSecret) = ""
              THEN Append1(d1, AttributeError("api_token_secret",
                                   "Missing Proxmox VE API Token Secret"))
              ELSE d1
        d3 == IF ValueString(config.APITokenUsername) = ""
              THEN Append1(d2, AttributeError("api_token_username",
                                   "Missing Proxmox VE API Token Username"))
              ELSE d2
        d4 == IF ValueString(config.Endpoint) = ""
              THEN Append1(d3, AttributeError("endpoint",
                                   "Missing Proxmox VE Endpoint"))
              ELSE d3
    IN d4

\* proxmox.NewClient with the token "<username>!<id>" and the TLS policy
NewClient(config) ==
    [baseURL |-> <<ValueString(config.Endpoint), "/api2/json">>,
     token |-> <<ValueString(config.APITokenUsername), "!",
                 ValueString(config.APITokenID)>>,
     secret |-> ValueString(config.APITokenSecret),
     insecureSkipVerify |-> config.IgnoreUntrustedSSLCertificate]

\* &proxmoxveProviderData{client, endpoint, provider}
NewProviderData(config) ==
    [type |-> "*proxmoxveProviderData", client |-> NewClient(config),
     endpoint |-> ValueString(config.Endpoint)]

\* everything after validation: one Version call, then publish or report
ConnectNoReturnOnError(config, versionErr, diags) ==
    LET d == IF versionErr
             THEN Append1(diags, ErrorDiag("Proxmox VE API: Get Version Failed",
                                           "version"))
             ELSE diags
    IN [diags |-> d, versionCalls |-> 1,
        data |-> Some(NewProviderData(config))]

Connect(config, versionErr, diags) ==
    LET d == IF versionErr
             THEN Append1(diags, ErrorDiag("Proxmox VE API: Get Version Failed",
                                           "version"))
             ELSE diags
    IN IF HasError(d)
       THEN [diags |-> d, versionCalls |-> 1, data |-> None]
       ELSE [diags |-> d, versionCalls |-> 1,
             data |-> Some(NewProviderData(config))]

\* the whole handler: what it leaves in resp, and the calls it made
ConfigureResult(config, versionErr) ==
    LET d0 == ConfigGet(<<>>)
        d1 == UnknownChecks(config, d0)
        d2 == MissingChecks(config, d1)
    IN IF HasError(d0) THEN [diags |-> d0, versionCalls |-> 0, data |-> None]
       ELSE IF HasError(d1)
            THEN [diags |-> d1, versionCalls |-> 0, data |-> None]
       ELSE IF HasError(d2)
            THEN [diags |-> d2, versionCalls |-> 0, data |-> None]
       ELSE Connect(config, versionErr, d2)

ProviderConfigure(config, versionErr) ==
    /\ ~fault
    /\ handler = ""
    /\ LET r == ConfigureResult(config, versionErr)
       IN /\ handler' = "ProviderConfigure"
          /\ req' = [config |-> config,
                     versionErr |-> (r.versionCalls > 0 /\ versionErr)]
          /\ resp' = [Diagnostics |-> r.diags]
          /\ calls' = [i \in 1..r.versionCalls |-> "Version"]
          /\ parsed' = 0
          /\ DataSourceData' = r.data
          \* resp.ResourceData = resp.DataSourceData
          /\ ResourceData' = r.data
    /\ UNCHANGED <<providerData, configured, fault, parseVars>>

(***************************************************************************)
(* Text: an interface line is a sequence of one-character strings.         *)
(***************************************************************************)
\* index of the first occurrence of character c in s, 0 when there is none
IndexOf(s, c) ==
    IF \E i \in 1..Len(s) : s[i] = c
    THEN CHOOSE i \in 1..Len(s) : s[i] = c /\ \A j \in 1..(i - 1) : s[j] # c
    ELSE 0

\* strings.Split(s, sep) for a one-character separator: every piece between
\* separators, n + 1 pieces for n separators
RECURSIVE Split(_, _)
Split(s, sep) ==
    LET i == IndexOf(s, sep)
    IN IF i = 0 THEN <<s>>
       ELSE <<SubSeq(s, 1, i - 1)>> \o Split(SubSeq(s, i + 1, Len(s)), sep)

\* the keys the parser's switch names
k_model == <<"m", "o", "d", "e", "l">>
k_bridge == <<"b", "r", "i", "d", "g", "e">>
k_firewall == <<"f", "i", "r", "e", "w", "a", "l", "l">>
k_link_down == <<"l", "i", "n", "k", "_", "d", "o", "w", "n">>
k_macaddr == <<"m", "a", "c", "a", "d", "d", "r">>
k_virtio == <<"v", "i", "r", "t", "i", "o">>
k_mtu == <<"m", "t", "u">>
k_queues == <<"q", "u", "e", "u", "e", "s">>
k_rate == <<"r", "a", "t", "e">>
k_tag == <<"t", "a", "g">>
k_trunks == <<"t", "r", "u", "n", "k", "s">>

(***************************************************************************)
(* strconv.ParseBool and strconv.ParseInt(value, 10, 32)                   *)
(***************************************************************************)
BoolTrue == {<<"1">>, <<"t">>, <<"T">>, <<"T", "R", "U", "E">>, <<"t", "r", "u", "e">>, <<"T", "r", "u", "e">>}
BoolFalse == {<<"0">>, <<"f">>, <<"F">>, <<"F", "A", "L", "S", "E">>, <<"f", "a", "l", "s", "e">>, <<"F", "a", "l", "s", "e">>}

\* [ok, val, kind]: kind is the error's text ("syntax" or "range")
ParseBool(str) ==
    IF str \in BoolTrue THEN [ok |-> TRUE, val |-> TRUE, kind |-> ""]
    ELSE IF str \in BoolFalse THEN [ok |-> TRUE, val |-> FALSE, kind |-> ""]
    ELSE [ok |-> FALSE, val |-> FALSE, kind |-> "syntax"]

Digits == {"0", "1", "2", "3", "4", "5", "6", "7", "8", "9"}

DigitVal(c) ==
    CASE c = "0" -> 0 [] c = "1" -> 1 [] c = "2" -> 2 [] c = "3" -> 3
      [] c = "4" -> 4 [] c = "5" -> 5 [] c = "6" -> 6 [] c = "7" -> 7
      [] c = "8" -> 8 [] c = "9" -> 9

MinInt32 == -2147483647 - 1

\* The unsigned scan of ParseUint(s, 10, 32), left to right.  The magnitude n
\* is carried as -n so that 2^31 is representable; st is
\*   "exact"  : n <= 2^31, neg = -n
\*   "over31" : 2^31 < n <= 2^32 - 1 (fits the unsigned scan, not an int32)
\*   "syntax" : a character that is no digit was met
\*   "range"  : n exceeded 2^32 - 1
RECURSIVE ScanDigits(_, _, _)
ScanDigits(s, st, neg) ==
    IF s = <<>> \/ st \in {"syntax", "range"} THEN [st |-> st, neg |-> neg]
    ELSE LET c == Head(s)
         IN IF c \notin Digits THEN [st |-> "syntax", neg |-> 0]
            ELSE IF st = "over31" THEN [st |-> "range", neg |-> 0]
            ELSE LET d == DigitVal(c)
                 IN IF neg > -214748364 \/ (neg = -214748364 /\ d <= 8)
                    THEN ScanDigits(Tail(s), "exact", neg * 10 - d)
                    ELSE IF neg > -429496729 \/ (neg = -429496729 /\ d <= 5)
                    THEN ScanDigits(Tail(s), "over31", 0)
                    ELSE [st |-> "range", neg |-> 0]

ParseInt32(str) ==
    LET signed == str # <<>> /\ Head(str) \in {"+", "-"}
        isNeg == str # <<>> /\ Head(str) = "-"
        body == IF signed THEN Tail(str) ELSE str
        r == ScanDigits(body, "exact", 0)
    IN IF str = <<>> \/ body = <<>>
       THEN [ok |-> FALSE, val |-> 0, kind |-> "syntax"]
       ELSE IF r.st = "syntax" THEN [ok |-> FALSE, val |-> 0, kind |-> "syntax"]
       ELSE IF r.st \in {"range", "over31"}
            THEN [ok |-> FALSE, val |-> 0, kind |-> "range"]
       ELSE IF isNeg THEN [ok |-> TRUE, val |-> r.neg, kind |-> ""]
       ELSE IF r.neg = MinInt32 THEN [ok |-> FALSE, val |-> 0, kind |-> "range"]
       ELSE [ok |-> TRUE, val |-> -r.neg, kind |-> ""]

(***************************************************************************)
(* vmConfigDataSource.parseNetworkConfig                                   *)
(***************************************************************************)
\* an interface whose RawConfig is never assigned
NewIfaceNoRaw(config) ==
    [Bridge |-> None, Firewall |-> None, HardwareAddress |-> None,
     LinkDown |-> None, Model |-> None, MTU |-> None, Queues |-> None,
     Rate |-> None, RawConfig |-> None, Tag |-> None, Trunks |-> None]

\* vmConfigDataSourceNetworkInterfaceModel{RawConfig: config}
NewIface(config) ==
    [Bridge |-> None, Firewall |-> None, HardwareAddress |-> None,
     LinkDown |-> None, Model |-> None, MTU |-> None, Queues |-> None,
     Rate |-> None, RawConfig |-> Some(config), Tag |-> None, Trunks |-> None]

\* the error a failed coercion adds: it names the property and carries
\* err.Error(), which quotes the value and gives the kind of failure
ValueError(name, value, kind) ==
    ErrorDiag("Unexpected VM Config Value", <<name, value, kind>>)

\* case "model", "bridge", "macaddr", "virtio"
StringField(st, field, value) == [st EXCEPT !.iface[field] = Some(value)]

\* case "firewall", "link_down"
BoolField(st, field, name, value) ==
    LET r == ParseBool(value)
    IN IF ~r.ok
       THEN [st EXCEPT !.diag = Append1(@, ValueError(name, value, r.kind))]
       ELSE [st EXCEPT !.iface[field] = Some(r.val)]

\* a coercion failure that still assigns the zero value (no continue)
IntFieldZeroOnError(st, field, name, value) ==
    LET r == ParseInt32(value)
    IN IF ~r.ok
       THEN [st EXCEPT !.diag = Append1(@, ValueError(name, value, r.kind)),
                       !.iface[field] = Some(0)]
       ELSE [st EXCEPT !.iface[field] = Some(r.val)]

\* case "mtu", "queues", "rate", "tag"
IntField(st, field, name, value) ==
    LET r == ParseInt32(value)
    IN IF ~r.ok
       THEN [st EXCEPT !.diag = Append1(@, ValueError(name, value, r.kind))]
       ELSE [st EXCEPT !.iface[field] = Some(r.val)]

\* the loop over strings.Split(value, ";")
RECURSIVE TrunkElems(_, _)
TrunkElems(st, elems) ==
    IF elems = <<>> THEN st
    ELSE LET r == ParseInt32(Head(elems))
             st1 == IF ~r.ok
                    THEN [st EXCEPT !.diag =
                              Append1(@, ValueError("trunks", Head(elems), r.kind))]
                    ELSE [st EXCEPT !.iface.Trunks =
                              Some(Append(@[1], r.val))]
         IN TrunkElems(st1, Tail(elems))

\* case "trunks"
TrunksField(st, value) ==
    TrunkElems([st EXCEPT !.iface.Trunks = Some(<<>>)], Split(value, ";"))

\* the iteration with a guard on the length of kv: a pair without "=" is
\* skipped
ApplyPairGuarded(st, pair) ==
    LET kv == Split(pair, "=")
    IN IF Len(kv) < 2 THEN st
       ELSE LET key == kv[1]
                value == kv[2]
            IN CASE key = k_model -> StringField(st, "Model", value)
                 [] key = k_bridge -> StringField(st, "Bridge", value)
                 [] key = k_firewall -> BoolField(st, "Firewall", "firewall", value)
                 [] key = k_link_down -> BoolField(st, "LinkDown", "link_down", value)
                 [] key \in {k_macaddr, k_virtio} ->
                        StringField(st, "HardwareAddress", value)
                 [] key = k_mtu -> IntField(st, "MTU", "mtu", value)
                 [] key = k_queues -> IntField(st, "Queues", "queues", value)
                 [] key = k_rate -> IntField(st, "Rate", "rate", value)
                 [] key = k_tag -> IntField(st, "Tag", "tag", value)
                 [] key = k_trunks -> TrunksField(st, value)
                 [] OTHER -> st

\* one iteration of the loop over the pairs.  kv[1] is read without a check:
\* a pair without "=" is an index out of range, a panic
ApplyPair(st, pair) ==
    LET kv == Split(pair, "=")
    IN IF Len(kv) < 2 THEN [st EXCEPT !.fault = TRUE]
       ELSE LET key == kv[1]
                value == kv[2]
            IN CASE key = k_model -> StringField(st, "Model", value)
                 [] key = k_bridge -> StringField(st, "Bridge", value)
                 [] key = k_firewall -> BoolField(st, "Firewall", "firewall", value)
                 [] key = k_link_down -> BoolField(st, "LinkDown", "link_down", value)
                 [] key \in {k_macaddr, k_virtio} ->
                        StringField(st, "HardwareAddress", value)
                 [] key = k_mtu -> IntField(st, "MTU", "mtu", value)
                 [] key = k_queues -> IntField(st, "Queues", "queues", value)
                 [] key = k_rate -> IntField(st, "Rate", "rate", value)
                 [] key = k_tag -> IntField(st, "Tag", "tag", value)
                 [] key = k_trunks -> TrunksField(st, value)
                 [] OTHER -> st

RECURSIVE ParsePairs(_, _)
ParsePairs(st, pairs) ==
    IF pairs = <<>> \/ st.fault THEN st
    ELSE ParsePairs(ApplyPair(st, Head(pairs)), Tail(pairs))

\* diag is the callee's own copy of the caller's diagnostics (a slice passed
\* by value): the result's diag is what the callee holds when it returns.
\* On a panic nothing is returned.
ReturnIface(st) ==
    IF st.fault THEN [fault |-> TRUE, iface |-> None, diag |-> <<>>]
    ELSE [fault |-> FALSE, iface |-> Some(st.iface), diag |-> st.diag]

parseNetworkConfig(config, diag) ==
    ReturnIface(ParsePairs([iface |-> NewIface(config), diag |-> diag,
                            fault |-> FALSE],
                           Split(config, ",")))

(***************************************************************************)
(* vmConfigDataSource.Configure                                            *)
(***************************************************************************)
\* what d.providerData is after Configure(req) with req.ProviderData = pd
DataSourceConfigureResult(old, pd) ==
    IF pd = None THEN [providerData |-> old, diags |-> <<>>]
    ELSE IF pd[1].type # "*proxmoxveProviderData"
         THEN [providerData |-> old,
               diags |-> <<ErrorDiag("Unexpected Data Source Configure Type",
                                     <<pd[1].type>>)>>]
    ELSE [providerData |-> pd, diags |-> <<>>]

\* the host hands over the provider data of the last provider Configure
DataSourceConfigure ==
    /\ ~fault
    /\ handler = ""
    /\ LET r == DataSourceConfigureResult(providerData, DataSourceData)
       IN /\ handler' = "DataSourceConfigure"
          /\ req' = [ProviderData |-> DataSourceData]
          /\ resp' = [Diagnostics |-> r.diags]
          /\ calls' = <<>>
          /\ parsed' = 0
          /\ providerData' = r.providerData
          /\ configured' = TRUE
    /\ UNCHANGED <<DataSourceData, ResourceData, fault, parseVars>>

(***************************************************************************)
(* vmConfigDataSource.Read                                                 *)
(***************************************************************************)
\* types.Int32 of the filter
IntNull == [state |-> "null", value |-> 0]
IntUnknown == [state |-> "unknown", value |-> 0]
IntKnown(n) == [state |-> "known", value |-> n]

\* config.Filter: nil, or the filter object
Filters ==
    {None} \cup
    {Some(f) : f \in [NodeName : {StrNull, StrUnknown, StrKnown(""),
                                  StrKnown("pve1")},
                      VMID : {IntNull, IntUnknown, IntKnown(100)}]}

\* the raw lines a slot of the VM may hold
NetLines ==
    {
     <<>>,  \* (the empty line)
     <<"v", "i", "r", "t", "i", "o", "=", "A", "A", ":", "B", "B", ",", "b", "r", "i", "d", "g", "e", "=", "v", "m", "b", "r", "0", ",", "f", "i", "r", "e", "w", "a", "l", "l", "=", "1">>,  \* virtio=AA:BB,bridge=vmbr0,firewall=1
     <<"m", "o", "d", "e", "l", "=", "e", "1", "0", "0", "0", ",", "m", "t", "u", "=", "x", ",", "t", "a", "g", "=", "1", "0", "0">>,  \* model=e1000,mtu=x,tag=100
     <<"t", "r", "u", "n", "k", "s", "=", "1", "0", ";", "x", ";", "3", "0", ",", "r", "a", "t", "e", "=", "2", "1", "4", "7", "4", "8", "3", "6", "4", "8">>,  \* trunks=10;x;30,rate=2147483648
     <<"b", "r", "i", "d", "g", "e", "=", "a", "=", "b">>,  \* bridge=a=b
     <<"b", "r", "i", "d", "g", "e">>,  \* bridge
     <<"m", "t", "u", "=", "5", ",", "m", "t", "u", "=", "x">>  \* mtu=5,mtu=x
    }

Slots == 0..(MaxNets - 1)

\* MergeNets(): a mapping from some of the slots to their lines
NetMaps == UNION {[S -> NetLines] : S \in SUBSET Slots}

\* the orders in which a range over the map may visit its keys
Orders(m) ==
    {o \in [1..Cardinality(DOMAIN m) -> DOMAIN m] :
        \A i, j \in DOMAIN o : i # j => o[i] # o[j]}

\* the VM the remote API answers with: VirtualMachineConfig is nil, or its
\* merged network slots as the range visits them, <<slot, line>> each
VMs ==
    {[Name |-> "vm100", Node |-> "pve1", Status |-> "running", Config |-> None]}
    \cup
    UNION {{[Name |-> "vm100", Node |-> "pve1", Status |-> "running",
             Config |-> Some([i \in DOMAIN o |-> <<o[i], m[o[i]]>>])] :
               o \in Orders(m)} : m \in NetMaps}

\* the three checks on the filter, in the code's order, each returning at
\* once: the diagnostics they leave (empty when all pass)
PreconditionsAccumulate(filter, diags) ==
    LET d1 == IF filter = None
              THEN Append1(diags, ErrorDiag("Filter Is Required", <<>>))
              ELSE diags
        d2 == IF filter # None /\ (IsNull(filter[1].NodeName)
                                   \/ IsUnknown(filter[1].NodeName))
              THEN Append1(d1, ErrorDiag("Filter Node Name Is Required", <<>>))
              ELSE d1
        d3 == IF filter # None /\ (IsNull(filter[1].VMID)
                                   \/ IsUnknown(filter[1].VMID))
              THEN Append1(d2, ErrorDiag("Filter VM ID Is Required", <<>>))
              ELSE d2
    IN d3

Preconditions(filter, diags) ==
    IF filter = None
    THEN Append1(diags, ErrorDiag("Filter Is Required", <<>>))
    ELSE IF IsNull(filter[1].NodeName) \/ IsUnknown(filter[1].NodeName)
    THEN Append1(diags, ErrorDiag("Filter Node Name Is Required", <<>>))
    ELSE IF IsNull(filter[1].VMID) \/ IsUnknown(filter[1].VMID)
    THEN Append1(diags, ErrorDiag("Filter VM ID Is Required", <<>>))
    ELSE diags

\* the loop over MergeNets() with the diagnostics handed over by reference:
\* the parser's errors would reach the response
RECURSIVE ParseNetsSharedDiag(_, _, _)
AppendIfaceSharedDiag(r, nets, ifaces, diags) ==
    IF r.fault THEN [fault |-> TRUE, ifaces |-> <<>>, diags |-> diags,
                     parsed |-> Len(ifaces) + 1]
    ELSE ParseNetsSharedDiag(Tail(nets), Append(ifaces, r.iface[1]), r.diag)

ParseNetsSharedDiag(nets, ifaces, diags) ==
    IF nets = <<>> THEN [fault |-> FALSE, ifaces |-> ifaces, diags |-> diags,
                         parsed |-> Len(ifaces)]
    ELSE IF Head(nets)[2] = <<>>
         THEN ParseNetsSharedDiag(Tail(nets), ifaces, diags)
    ELSE AppendIfaceSharedDiag(parseNetworkConfig(Head(nets)[2], diags),
                               nets, ifaces, diags)

\* the loop over MergeNets(): an empty line is skipped; every other line is
\* parsed and its interface appended.  parseNetworkConfig receives
\* resp.Diagnostics by value, so what it adds stays in its own copy and the
\* response's diagnostics are as before the call.  r is the parser's
\* outcome for the line at the head of nets.  Every parsed line appends one
\* interface, so the lines parsed so far are as many as ifaces is long.
RECURSIVE ParseNets(_, _, _)
AppendIface(r, nets, ifaces, diags) ==
    IF r.fault THEN [fault |-> TRUE, ifaces |-> <<>>, diags |-> diags,
                     parsed |-> Len(ifaces) + 1]
    ELSE ParseNets(Tail(nets), Append(ifaces, r.iface[1]), diags)

ParseNets(nets, ifaces, diags) ==
    IF nets = <<>> THEN [fault |-> FALSE, ifaces |-> ifaces, diags |-> diags,
                         parsed |-> Len(ifaces)]
    ELSE IF Head(nets)[2] = <<>>
         THEN ParseNets(Tail(nets), ifaces, diags)
    ELSE AppendIface(parseNetworkConfig(Head(nets)[2], diags),
                     nets, ifaces, diags)

\* vmConfigDataSourceModel{Data: ..., Filter: config.Filter}
NewState(filter, vm, ifaces) ==
    [Data |-> [Name |-> vm.Name, NetworkInterfaces |-> ifaces,
               Node |-> vm.Node, Status |-> vm.Status,
               VMID |-> filter[1].VMID],
     Filter |-> filter]

\* after the loop: return on an error, else set the state.  p is the
\* loop's outcome.
SetState(p, filter, vm, called) ==
    IF p.fault
    THEN [fault |-> TRUE, diags |-> <<>>, state |-> None, calls |-> called,
          parsed |-> p.parsed]
    ELSE IF HasError(p.diags)
    THEN [fault |-> FALSE, diags |-> p.diags, state |-> None, calls |-> called,
          parsed |-> p.parsed]
    ELSE [fault |-> FALSE, diags |-> p.diags,
          state |-> Some(NewState(filter, vm, p.ifaces)), calls |-> called,
          parsed |-> p.parsed]

\* after both remote calls succeeded: map, parse, set the state
MapAndSet(filter, vm, diags, called) ==
    SetState(IF vm.Config # None THEN ParseNets(vm.Config[1], <<>>, diags)
             ELSE [fault |-> FALSE, ifaces |-> <<>>, diags |-> diags,
                   parsed |-> 0],
             filter, vm, called)

\* the handler without the return after a failed client.Node: it goes on to
\* the VM lookup
ReadResultNoAbort(pd, filter, nodeErr, vmErr, vm) ==
    IF pd = None
    \* d.providerData.AddLogContext reads p.endpoint through a nil pointer
    THEN [fault |-> TRUE, diags |-> <<>>, state |-> None, calls |-> <<>>,
          parsed |-> 0]
    ELSE
    LET d0 == ConfigGet(<<>>)
        d1 == Preconditions(filter, d0)
    IN IF HasError(d0)
       THEN [fault |-> FALSE, diags |-> d0, state |-> None, calls |-> <<>>,
          parsed |-> 0]
       ELSE IF d1 # d0
       THEN [fault |-> FALSE, diags |-> d1, state |-> None, calls |-> <<>>,
          parsed |-> 0]
       ELSE IF nodeErr
       THEN MapAndSet(filter, vm,
                Append1(d1, ErrorDiag("Proxmox VE API: Failed to Locate Node",
                          <<ValueString(filter[1].NodeName), "node error">>)),
                <<"Node", "VirtualMachine">>)
       ELSE IF vmErr
       THEN [fault |-> FALSE,
             diags |-> Append1(d1, ErrorDiag("Proxmox VE API: Failed to Retrieve VM",
                          <<filter[1].VMID.value, "vm error">>)),
             state |-> None, calls |-> <<"Node", "VirtualMachine">>,
             parsed |-> 0]
       ELSE MapAndSet(filter, vm, d1, <<"Node", "VirtualMachine">>)

\* the whole handler.  pd is d.providerData, nodeErr and vmErr tell whether
\* client.Node and node.VirtualMachine fail, vm is the VM the API returns.
ReadResult(pd, filter, nodeErr, vmErr, vm) ==
    IF pd = None
    \* d.providerData.AddLogContext reads p.endpoint through a nil pointer
    THEN [fault |-> TRUE, diags |-> <<>>, state |-> None, calls |-> <<>>,
          parsed |-> 0]
    ELSE
    LET d0 == ConfigGet(<<>>)
        d1 == Preconditions(filter, d0)
    IN IF HasError(d0)
       THEN [fault |-> FALSE, diags |-> d0, state |-> None, calls |-> <<>>,
          parsed |-> 0]
       ELSE IF d1 # d0
       THEN [fault |-> FALSE, diags |-> d1, state |-> None, calls |-> <<>>,
          parsed |-> 0]
       ELSE IF nodeErr
       THEN [fault |-> FALSE,
             diags |-> Append1(d1, ErrorDiag("Proxmox VE API: Failed to Locate Node",
                          <<ValueString(filter[1].NodeName), "node error">>)),
             state |-> None, calls |-> <<"Node">>, parsed |-> 0]
       ELSE IF vmErr
       THEN [fault |-> FALSE,
             diags |-> Append1(d1, ErrorDiag("Proxmox VE API: Failed to Retrieve VM",
                          <<filter[1].VMID.value, "vm error">>)),
             state |-> None, calls |-> <<"Node", "VirtualMachine">>,
             parsed |-> 0]
       ELSE MapAndSet(filter, vm, d1, <<"Node", "VirtualMachine">>)

\* a filter that passes the three checks
PassesChecks(filter) == Preconditions(filter, <<>>) = <<>>

NoVM == [Name |-> "", Node |-> "", Status |-> "", Config |-> None]

\* what the host sees of a Read whose outcome is r
Respond(r, filter, nodeErr, vmErr, vm) ==
    /\ handler' = "Read"
    /\ req' = [Filter |-> filter, nodeErr |-> nodeErr, vmErr |-> vmErr,
               vm |-> vm]
    /\ resp' = [Diagnostics |-> r.diags, State |-> r.state]
    /\ calls' = r.calls
    /\ parsed' = r.parsed
    /\ fault' = r.fault

\* The host serves a Read.  The remote answers are drawn only as far as the
\* handler gets to ask for them.
Read ==
    /\ ~fault
    /\ handler = ""
    /\ \E filter \in Filters :
       \E nodeErr \in IF providerData # None /\ PassesChecks(filter)
                      THEN BOOLEAN ELSE {FALSE} :
       \E vmErr \in IF providerData # None /\ PassesChecks(filter) /\ ~nodeErr
                    THEN BOOLEAN ELSE {FALSE} :
       \E vm \in IF providerData # None /\ PassesChecks(filter) /\ ~nodeErr
                    /\ ~vmErr
                 THEN VMs ELSE {NoVM} :
          Respond(ReadResult(providerData, filter, nodeErr, vmErr, vm),
                  filter, nodeErr, vmErr, vm)
    /\ UNCHANGED <<DataSourceData, ResourceData, providerData, configured,
                   parseVars>>

(***************************************************************************)
(* The provider process: the host serves one handler at a time.            *)
(***************************************************************************)
Init ==
    /\ handler = ""
    /\ req = <<>>
    /\ resp = <<>>
    /\ calls = <<>>
    /\ parsed = 0
    /\ DataSourceData = None
    /\ ResourceData = None
    /\ providerData = None
    /\ configured = FALSE
    /\ fault = FALSE
    /\ pline = <<>>
    /\ pout = None

\* the response has gone to the host; the next request may come
Return ==
    /\ ~fault
    /\ handler # ""
    /\ handler' = ""
    /\ req' = <<>>
    /\ resp' = <<>>
    /\ calls' = <<>>
    /\ parsed' = 0
    /\ UNCHANGED <<DataSourceData, ResourceData, providerData, configured,
                   fault, parseVars>>

Next ==
    \/ \E config \in ProviderConfigs, versionErr \in BOOLEAN :
          ProviderConfigure(config, versionErr)
    \/ DataSourceConfigure
    \/ Read
    \/ Return

Spec == Init /\ [][Next]_vars

(***************************************************************************)
(* The parser on its own: a line is drawn, parseNetworkConfig is applied.  *)
(***************************************************************************)
\* the pairs the lines under test are made of
PairPool ==
    {
     <<"m", "o", "d", "e", "l", "=", "e", "1", "0", "0", "0">>,  \* model=e1000
     <<"b", "r", "i", "d", "g", "e", "=", "v", "m", "b", "r", "0">>,  \* bridge=vmbr0
     <<"b", "r", "i", "d", "g", "e", "=", "a", "=", "b">>,  \* bridge=a=b
     <<"v", "i", "r", "t", "i", "o", "=", "A", "A", ":", "B", "B">>,  \* virtio=AA:BB
     <<"m", "a", "c", "a", "d", "d", "r", "=", "C", "C", ":", "D", "D">>,  \* macaddr=CC:DD
     <<"f", "i", "r", "e", "w", "a", "l", "l", "=", "1">>,  \* firewall=1
     <<"f", "i", "r", "e", "w", "a", "l", "l", "=", "y", "e", "s">>,  \* firewall=yes
     <<"l", "i", "n", "k", "_", "d", "o", "w", "n", "=", "f", "a", "l", "s", "e">>,  \* link_down=false
     <<"l", "i", "n", "k", "_", "d", "o", "w", "n", "=", "2">>,  \* link_down=2
     <<"m", "t", "u", "=", "1", "5", "0", "0">>,  \* mtu=1500
     <<"m", "t", "u", "=", "x">>,  \* mtu=x
     <<"m", "t", "u", "=">>,  \* mtu=
     <<"m", "t", "u", "=", "5", "=", "6">>,  \* mtu=5=6
     <<"q", "u", "e", "u", "e", "s", "=", "-", "4">>,  \* queues=-4
     <<"q", "u", "e", "u", "e", "s", "=", "+">>,  \* queues=+
     <<"r", "a", "t", "e", "=", "2", "1", "4", "7", "4", "8", "3", "6", "4", "7">>,  \* rate=2147483647
     <<"r", "a", "t", "e", "=", "2", "1", "4", "7", "4", "8", "3", "6", "4", "8">>,  \* rate=2147483648
     <<"t", "a", "g", "=", "1", "0", "0">>,  \* tag=100
     <<"t", "a", "g", "=", "1", "x">>,  \* tag=1x
     <<"t", "r", "u", "n", "k", "s", "=", "1", "0", ";", "2", "0", ";", "3", "0">>,  \* trunks=10;20;30
     <<"t", "r", "u", "n", "k", "s", "=", "1", "0", ";", "x", ";", "3", "0">>,  \* trunks=10;x;30
     <<"t", "r", "u", "n", "k", "s", "=">>,  \* trunks=
     <<"f", "o", "o", "=", "b", "a", "r">>,  \* foo=bar
     <<"b", "r", "i", "d", "g", "e">>,  \* bridge
     <<>>,  \* (the empty pair)
     <<"=", "5">>  \* =5
    }

\* strings.Join(pairs, ",")
RECURSIVE Join(_)
Join(pairs) ==
    IF Len(pairs) = 1 THEN pairs[1]
    ELSE pairs[1] \o <<",">> \o Join(Tail(pairs))

Lines == {Join(ps) : ps \in UNION {[1..n -> PairPool] : n \in 1..MaxPairs}}

ParseInit ==
    /\ handler = ""
    /\ req = <<>>
    /\ resp = <<>>
    /\ calls = <<>>
    /\ parsed = 0
    /\ DataSourceData = None
    /\ ResourceData = None
    /\ providerData = None
    /\ configured = FALSE
    /\ fault = FALSE
    /\ pline \in Lines
    /\ pout = None

\* the call d.parseNetworkConfig(ctx, pline, diags) with empty diagnostics
Parse ==
    /\ pout = None
    /\ pout' = Some(parseNetworkConfig(pline, <<>>))
    /\ UNCHANGED <<lastVars, DataSourceData, ResourceData, providerData,
                   configured,
                   fault, pline>>

ParseNext == Parse

ParseSpec == ParseInit /\ [][ParseNext]_vars
(***************************************************************************)
(*                         PROPERTIES                                      *)
(***************************************************************************)

(***************************************************************************)
(* Provider Configure                                                      *)
(***************************************************************************)
RequiredFields == {"APITokenID", "APITokenSecret", "APITokenUsername", "Endpoint"}

\* the attribute path of a field of the provider model
PathOf(f) ==
    CASE f = "APITokenID" -> "api_token_id"
      [] f = "APITokenSecret" -> "api_token_secret"
      [] f = "APITokenUsername" -> "api_token_username"
      [] f = "Endpoint" -> "endpoint"

UnknownSummaryOf(f) ==
    CASE f = "APITokenID" -> "Unknown Proxmox VE API Token ID"
      [] f = "APITokenSecret" -> "Unknown Proxmox VE API Token Secret"
      [] f = "APITokenUsername" -> "Unknown Proxmox VE API Token Username"
      [] f = "Endpoint" -> "Unknown Proxmox VE Endpoint"

\* a required field that is unknown, or missing or empty
FieldInvalid(config, f) == IsUnknown(config[f]) \/ ValueString(config[f]) = ""

ConfigValid(config) == \A f \in RequiredFields : ~FieldInvalid(config, f)

ErrorsAt(diags, attr) ==
    {i \in 1..Len(diags) : diags[i].severity = "error" /\ diags[i].path = attr}

NumErrors(diags) ==
    Cardinality({i \in 1..Len(diags) : diags[i].severity = "error"})

\* C1: after provider Configure, every required field that is unknown or
\* empty has at least one error attributed to it in the returned
\* diagnostics, also when unknown and empty fields occur together.
C1_EveryInvalidFieldReported ==
    handler = "ProviderConfigure" =>
        \A f \in RequiredFields :
            FieldInvalid(req.config, f) =>
                ErrorsAt(resp.Diagnostics, PathOf(f)) # {}

\* C2: after provider Configure, an error attributed to field F is present
\* only if F itself is unknown or empty, and an unknown F is reported as
\* unknown for F.
C2_ErrorsNameTheFaultyField ==
    handler = "ProviderConfigure" =>
        \A f \in RequiredFields :
            /\ ErrorsAt(resp.Diagnostics, PathOf(f)) # {}
                  => FieldInvalid(req.config, f)
            /\ IsUnknown(req.config[f])
                  => \E i \in ErrorsAt(resp.Diagnostics, PathOf(f)) :
                        resp.Diagnostics[i].summary = UnknownSummaryOf(f)

\* C10: after provider Configure of a configuration whose required fields
\* are all known and non-empty, exactly one Version call was made, and the
\* handle is published (DataSourceData and ResourceData, the same handle)
\* exactly if that call succeeded; a failed call leaves exactly one error and
\* no handle; a configuration that fails validation causes no Version call.
C10_OneVersionCallPublishIffOk ==
    handler = "ProviderConfigure" =>
        IF ConfigValid(req.config)
        THEN /\ calls = <<"Version">>
             /\ (DataSourceData # None) <=> ~req.versionErr
             /\ ResourceData = DataSourceData
             /\ req.versionErr =>
                    /\ NumErrors(resp.Diagnostics) = 1
                    /\ Len(resp.Diagnostics) = 1
                    /\ resp.Diagnostics[1].summary =
                           "Proxmox VE API: Get Version Failed"
             /\ ~req.versionErr =>
                    /\ resp.Diagnostics = <<>>
                    /\ DataSourceData = Some(NewProviderData(req.config))
        ELSE /\ calls = <<>>
             /\ DataSourceData = None
             /\ ResourceData = None
             /\ NumErrors(resp.Diagnostics) >= 1

\* a valid configuration whose Version call failed
C10_Witness ==
    /\ handler = "ProviderConfigure"
    /\ ConfigValid(req.config)
    /\ req.versionErr
    /\ calls = <<"Version">>
    /\ DataSourceData = None
    /\ NumErrors(resp.Diagnostics) = 1
(***************************************************************************)
(* What a line says, read off the text: the pairs between commas, a pair's *)
(* key before its first "=" and its value after it.                        *)
(***************************************************************************)
PairsOf(line) == Split(line, ",")

HasEq(pair) == IndexOf(pair, "=") # 0

KeyOf(pair) == SubSeq(pair, 1, IndexOf(pair, "=") - 1)

\* the whole text after the first "="
ValueOf(pair) == SubSeq(pair, IndexOf(pair, "=") + 1, Len(pair))

NumEq(pair) == Cardinality({i \in 1..Len(pair) : pair[i] = "="})

\* every pair of the line is key=value with a single "="
WellDelimited(line) ==
    \A i \in 1..Len(PairsOf(line)) : NumEq(PairsOf(line)[i]) = 1

\* every pair of the line has an "="
EveryPairHasEq(line) ==
    \A i \in 1..Len(PairsOf(line)) : HasEq(PairsOf(line)[i])

BoolKeys == {k_firewall, k_link_down}
IntKeys == {k_mtu, k_queues, k_rate, k_tag}
StringKeys == {k_model, k_bridge, k_macaddr, k_virtio}

\* the keys that feed a field of the interface
KeysOf(field) ==
    CASE field = "Model" -> {k_model}
      [] field = "Bridge" -> {k_bridge}
      [] field = "HardwareAddress" -> {k_macaddr, k_virtio}
      [] field = "Firewall" -> {k_firewall}
      [] field = "LinkDown" -> {k_link_down}
      [] field = "MTU" -> {k_mtu}
      [] field = "Queues" -> {k_queues}
      [] field = "Rate" -> {k_rate}
      [] field = "Tag" -> {k_tag}
      [] field = "Trunks" -> {k_trunks}

StringFields == {"Model", "Bridge", "HardwareAddress"}
BoolFields == {"Firewall", "LinkDown"}
IntFields == {"MTU", "Queues", "Rate", "Tag"}
ScalarFields == StringFields \cup BoolFields \cup IntFields

\* whether a value decodes for the field, and what it decodes to
WellFormed(field, value) ==
    CASE field \in StringFields -> TRUE
      [] field \in BoolFields -> ParseBool(value).ok
      [] field \in IntFields -> ParseInt32(value).ok

Decoded(field, value) ==
    CASE field \in StringFields -> value
      [] field \in BoolFields -> ParseBool(value).val
      [] field \in IntFields -> ParseInt32(value).val

\* the pairs of the line that carry a well-formed value for the field
GoodPairs(line, field) ==
    {i \in 1..Len(PairsOf(line)) :
        /\ HasEq(PairsOf(line)[i])
        /\ KeyOf(PairsOf(line)[i]) \in KeysOf(field)
        /\ WellFormed(field, ValueOf(PairsOf(line)[i]))}

Last(S) == CHOOSE i \in S : \A j \in S : j <= i

\* the field a line yields: unset when no pair carries a well-formed value
\* for it, else the decoded value (of the last such pair, should the key be
\* repeated in the line)
ExpectedScalar(line, field) ==
    IF GoodPairs(line, field) = {} THEN None
    ELSE Some(Decoded(field, ValueOf(PairsOf(line)[Last(GoodPairs(line, field))])))

TrunkPairs(line) ==
    {i \in 1..Len(PairsOf(line)) :
        HasEq(PairsOf(line)[i]) /\ KeyOf(PairsOf(line)[i]) = k_trunks}

IsInt32(str) == ParseInt32(str).ok

\* the well-formed elements of a trunks value, in their order, decoded
TrunkValues(value) ==
    LET good == SelectSeq(Split(value, ";"), IsInt32)
    IN [i \in 1..Len(good) |-> ParseInt32(good[i]).val]

ExpectedTrunks(line) ==
    IF TrunkPairs(line) = {} THEN None
    ELSE Some(TrunkValues(ValueOf(PairsOf(line)[Last(TrunkPairs(line))])))

\* the interface a line stands for
IfaceMatchesLine(iface, line) ==
    /\ iface.RawConfig = Some(line)
    /\ \A f \in ScalarFields : iface[f] = ExpectedScalar(line, f)
    /\ iface.Trunks = ExpectedTrunks(line)

\* the number of ill-formed values a line holds for recognized keys: one per
\* scalar pair that does not decode, one per trunks element that does not
IllFormedIn(pair) ==
    IF ~HasEq(pair) THEN 0
    ELSE IF KeyOf(pair) \in BoolKeys
         THEN (IF ParseBool(ValueOf(pair)).ok THEN 0 ELSE 1)
    ELSE IF KeyOf(pair) \in IntKeys
         THEN (IF ParseInt32(ValueOf(pair)).ok THEN 0 ELSE 1)
    ELSE IF KeyOf(pair) = k_trunks
         THEN Len(Split(ValueOf(pair), ";"))
              - Len(SelectSeq(Split(ValueOf(pair), ";"), IsInt32))
    ELSE 0

RECURSIVE SumIllFormed(_)
SumIllFormed(pairs) ==
    IF pairs = <<>> THEN 0
    ELSE IllFormedIn(Head(pairs)) + SumIllFormed(Tail(pairs))

IllFormedCount(line) == SumIllFormed(PairsOf(line))

(***************************************************************************)
(* Parser                                                                  *)
(***************************************************************************)
Parsed == pout # None

\* C7: for every line of well-delimited key=value pairs the parser returns
\* an interface in which a recognized scalar key with an ill-formed value
\* leaves its field unset while every other recognized key holds its decoded
\* value, and trunks holds the well-formed elements in their order with the
\* ill-formed ones skipped (trunks=10;x;30 gives [10, 30]).
C7_FailureTouchesOnlyItsField ==
    (Parsed /\ WellDelimited(pline)) =>
        /\ ~pout[1].fault
        /\ IfaceMatchesLine(pout[1].iface[1], pline)
        /\ pline = <<"t", "r", "u", "n", "k", "s", "=", "1", "0", ";", "x", ";", "3", "0">> => pout[1].iface[1].Trunks = Some(<<10, 30>>)

\* a line with an ill-formed mtu beside a well-formed bridge
C7_Witness ==
    /\ Parsed
    /\ pline = <<"m", "t", "u", "=", "x", ",", "b", "r", "i", "d", "g", "e", "=", "v", "m", "b", "r", "0">>
    /\ ~pout[1].fault
    /\ pout[1].iface[1].MTU = None
    /\ pout[1].iface[1].Bridge = Some(<<"v", "m", "b", "r", "0">>)

\* C8: a pair is split on its first "=" only, the value being the whole
\* text after it, and every recognized key with a well-formed value yields
\* the decoded value in its field.
C8_ValueIsTextAfterFirstEq ==
    (Parsed /\ EveryPairHasEq(pline)) =>
        /\ ~pout[1].fault
        /\ IfaceMatchesLine(pout[1].iface[1], pline)
(***************************************************************************)
(* Lookup (Read)                                                           *)
(***************************************************************************)
\* the Read was served by a data source that holds the provider's handle
\* (the lifecycle: configure, then serve lookups)
ConfiguredRead == handler = "Read" /\ providerData # None

\* the summary of the error for the first precondition a filter misses
FirstMissing(filter) ==
    IF filter = None THEN "Filter Is Required"
    ELSE IF filter[1].NodeName.state # "known"
         THEN "Filter Node Name Is Required"
    ELSE "Filter VM ID Is Required"

MissesPrecondition(filter) ==
    \/ filter = None
    \/ filter[1].NodeName.state # "known"
    \/ filter[1].VMID.state # "known"

\* C3: a Lookup whose filter is absent, or whose node name or VM id is null
\* or unknown, reports exactly one error, the one of the first failing check
\* in the order filter, node name, VM id; it issues no remote call and
\* writes no state.
C3_FirstFailingCheckOnly ==
    (ConfiguredRead /\ MissesPrecondition(req.Filter)) =>
        /\ ~fault
        /\ Len(resp.Diagnostics) = 1
        /\ resp.Diagnostics[1].severity = "error"
        /\ resp.Diagnostics[1].summary = FirstMissing(req.Filter)
        /\ calls = <<>>
        /\ resp.State = None

\* a filter that misses both the node name and the VM id
C3_Witness ==
    /\ ConfiguredRead
    /\ req.Filter # None
    /\ req.Filter[1].NodeName = StrUnknown
    /\ req.Filter[1].VMID = IntNull
    /\ Len(resp.Diagnostics) = 1
    /\ resp.Diagnostics[1].summary = "Filter Node Name Is Required"

\* C4: a Lookup whose filter carries the known node name "" (and a known
\* VM id, so that no other check stops it) reports an error naming the node
\* name and issues no remote call.
C4_EmptyNodeNameRejected ==
    (ConfiguredRead /\ req.Filter # None
        /\ req.Filter[1].NodeName = StrKnown("")
        /\ req.Filter[1].VMID.state = "known") =>
        /\ \E i \in 1..Len(resp.Diagnostics) :
              resp.Diagnostics[i].summary = "Filter Node Name Is Required"
        /\ calls = <<>>

\* both remote calls of the Read succeeded and the VM has a configuration
ReachedParsing ==
    /\ handler = "Read"
    /\ calls = <<"Node", "VirtualMachine">>
    /\ ~req.nodeErr
    /\ ~req.vmErr
    /\ req.vm.Config # None

IsNonEmptyNet(net) == net[2] # <<>>

\* the VM's non-empty lines, in the order the Read visited them
NonEmptyLines(vm) ==
    LET nets == SelectSeq(vm.Config[1], IsNonEmptyNet)
    IN [i \in 1..Len(nets) |-> nets[i][2]]

RECURSIVE SumLines(_)
SumLines(lines) ==
    IF lines = <<>> THEN 0
    ELSE IllFormedCount(Head(lines)) + SumLines(Tail(lines))

ParseErrors(diags) ==
    {i \in 1..Len(diags) : diags[i].summary = "Unexpected VM Config Value"}

\* every line is made of key=value pairs
LinesArePairs(vm) ==
    \A i \in 1..Len(NonEmptyLines(vm)) : EveryPairHasEq(NonEmptyLines(vm)[i])

\* C5: the diagnostics a Lookup returns hold exactly one parse error for
\* each ill-formed value (scalar or trunks element) of the VM's lines.
C5_EveryCoercionFailureReported ==
    (ReachedParsing /\ ~fault /\ LinesArePairs(req.vm)
        /\ req.Filter[1].NodeName = StrKnown("pve1")) =>
        Cardinality(ParseErrors(resp.Diagnostics))
            = SumLines(NonEmptyLines(req.vm))

Successful ==
    /\ handler = "Read"
    /\ ~fault
    /\ resp.State # None
    /\ ~HasError(resp.Diagnostics)

\* C9: a successful Lookup returns one interface per non-empty line of the
\* VM's slots, each with raw_config equal to its line whatever the parse
\* outcome; for a VM without a configuration object the Lookup returns zero
\* interfaces, reports no error and writes the state.
C9_OneInterfacePerNonEmptyLine ==
    /\ (Successful /\ req.vm.Config # None) =>
          LET ifs == resp.State[1].Data.NetworkInterfaces
              ls == NonEmptyLines(req.vm)
          IN /\ Len(ifs) = Len(ls)
             /\ \A i \in 1..Len(ls) : ifs[i].RawConfig = Some(ls[i])
    /\ (handler = "Read" /\ calls = <<"Node", "VirtualMachine">>
           /\ ~req.nodeErr /\ ~req.vmErr /\ req.vm.Config = None) =>
          /\ ~fault
          /\ resp.State # None
          /\ resp.State[1].Data.NetworkInterfaces = <<>>
          /\ resp.Diagnostics = <<>>

\* a VM with an empty slot and a slot whose line has an ill-formed value
C9_Witness ==
    /\ Successful
    /\ req.Filter[1].NodeName = StrKnown("pve1")
    /\ req.vm.Config # None
    /\ Len(req.vm.Config[1]) = 2
    /\ Len(NonEmptyLines(req.vm)) = 1
    /\ IllFormedCount(NonEmptyLines(req.vm)[1]) > 0
    /\ Len(resp.State[1].Data.NetworkInterfaces) = 1

\* a remote call of the Read failed
RemoteFailure == ConfiguredRead /\ (req.nodeErr \/ req.vmErr)

\* the message of the error the failed remote call returned
UnderlyingMessage == IF req.nodeErr THEN "node error" ELSE "vm error"

\* C11: a Lookup calls the node lookup at most once and the VM lookup at
\* most once, the VM lookup only after the node lookup succeeded; when
\* either call fails the Lookup makes no further call, reports exactly one
\* error whose detail carries the underlying message, parses no interface
\* line and writes no state, and the provider goes on serving.
C11_RemoteFailureAbortsOnce ==
    /\ handler = "Read" =>
          /\ calls \in {<<>>, <<"Node">>, <<"Node", "VirtualMachine">>}
          /\ (calls = <<"Node", "VirtualMachine">> => ~req.nodeErr)
    /\ RemoteFailure =>
          /\ ~fault
          /\ calls = IF req.nodeErr THEN <<"Node">>
                     ELSE <<"Node", "VirtualMachine">>
          /\ Len(resp.Diagnostics) = 1
          /\ resp.Diagnostics[1].severity = "error"
          /\ resp.Diagnostics[1].summary =
                IF req.nodeErr THEN "Proxmox VE API: Failed to Locate Node"
                ELSE "Proxmox VE API: Failed to Retrieve VM"
          /\ LET detail == resp.Diagnostics[1].detail
             IN detail[Len(detail)] = UnderlyingMessage
          /\ parsed = 0
          /\ resp.State = None
          /\ providerData # None

\* the node was found and the VM lookup failed
C11_Witness ==
    /\ RemoteFailure
    /\ req.vmErr
    /\ req.Filter[1].NodeName = StrKnown("pve1")
    /\ calls = <<"Node", "VirtualMachine">>
    /\ Len(resp.Diagnostics) = 1
    /\ resp.State = None

\* the Read was served by a data source whose Configure was called, and
\* only ever with nil provider data: it holds no handle
UnconfiguredRead == handler = "Read" /\ configured /\ providerData = None

\* C12: a Read served on a data source that never received a provider
\* handle issues no remote call, writes no state and ends by reporting an
\* error diagnostic, without faulting.
C12_UnconfiguredReadReportsError ==
    UnconfiguredRead =>
        /\ ~fault
        /\ HasError(resp.Diagnostics)
        /\ calls = <<>>
        /\ resp.State = None

\* C13: parseNetworkConfig faults, returning no interface and no
\* diagnostic, on every line with a pair that has no "=" (the empty pair of
\* a leading, trailing or doubled comma included); on every line whose
\* pairs all have an "=" it returns an interface without faulting.
C13_FaultsIffSomePairLacksEq ==
    Parsed =>
        /\ ~EveryPairHasEq(pline) =>
              /\ pout[1].fault
              /\ pout[1].iface = None
              /\ pout[1].diag = <<>>
        /\ EveryPairHasEq(pline) =>
              /\ ~pout[1].fault
              /\ pout[1].iface # None

\* the line "mtu=x," : an ill-formed value, then the empty pair of the
\* trailing comma
C13_Witness ==
    /\ Parsed
    /\ pline = <<"m", "t", "u", "=", "x", ",">>
    /\ PairsOf(pline) = << <<"m", "t", "u", "=", "x">>, <<>> >>
    /\ pout[1].fault
    /\ pout[1].iface = None
====
